---- MODULE Spec2Model ----
(***************************************************************************)
(* Data preparation and input pipelines of                                 *)
(* tensorflow-rnn-tutorial/tutorial/00_RNN_predictions_estimator_solution  *)
(* (.ipynb): the dataset cell (data), the "prepare training dataset" cell  *)
(* (labeldata, traindata, evaldata, evallabels, train_dataset,             *)
(* eval_dataset) and the training cell (nbsteps, train_spec, eval_spec).   *)
(*                                                                         *)
(* Arrays are sequences; Python's 0-based index k is index k+1 here.       *)
(* A window array of shape [W, L] is a sequence of W sequences of length L.*)
(* A name that has not been assigned yet holds <<>>.                       *)
(***************************************************************************)
EXTENDS Integers, Sequences, FiniteSets, Bags

\* ------------------------------------------------------------------ bounds
MaxDataSeqLen == 2
MaxSeqLen == 4
MaxBatchSize == 3
MaxEpochs == 2
MaxSeed == 2
MaxEvalPasses == 2
MaxTrainWindows == 4

\* The corpus is built from four waveforms: the code sizes everything that
\* follows as DATA_SEQ_LEN*4.
NbWaveforms == 4

VARIABLES
    DATA_SEQ_LEN,   \* hyperparameter: samples per waveform
    SEQLEN,         \* hyperparameter: window length L
    BATCHSIZE,      \* hyperparameter: mini-batch size B
    NB_EPOCHS,      \* hyperparameter: number of epochs
    data,           \* the flat source sequence, length M
    pc,             \* the preparation cell: "prepare", "ready" or "error"
    rolled,         \* labeldata as bound by `labeldata = np.roll(data, -1)`
    traindata,      \* [W, L] input windows
    labeldata,      \* [W, L] label windows (after the reshape)
    evalidx,        \* the indices np.random.choice returned
    evaldata,       \* [K, L]
    evallabels,     \* [K, L]
    trainpc,        \* "idle", "running", "done", "exhausted", "error"
    shuffleBuf,     \* the shuffle buffer of the training iterator (a bag of window indices)
    trainRead,      \* how many elements the shuffle stage has read from repeat()
    emitted,        \* bag of window indices the training iterator has emitted
    block,          \* bag of the indices emitted in the current block of W emissions
    dupInBlock,     \* some window was emitted twice within one block of W emissions
    lastBatch,      \* the last training batch delivered (window indices, in order)
    step,           \* global step: training batches consumed
    evalpc,         \* "idle", "open", "end", "error"
    evalRead,       \* elements the evaluation iterator has read in this pass
    evalBatches,    \* batches delivered in this pass
    evalBatch,      \* last evaluation batch delivered: sequence of <<input, label>>
    prevEvalBatch,  \* the batch delivered by the previous pass
    evalPasses      \* evaluation passes started

prepVars == <<rolled, traindata, labeldata, evalidx, evaldata, evallabels>>
trainVars == <<trainpc, shuffleBuf, trainRead, emitted, block, dupInBlock, lastBatch, step>>
evalVars == <<evalpc, evalRead, evalBatches, evalBatch, prevEvalBatch, evalPasses>>
config == <<DATA_SEQ_LEN, SEQLEN, BATCHSIZE, NB_EPOCHS, data>>
vars == <<config, pc, prepVars, trainVars, evalVars>>

\* ------------------------------------------------------- waveform generator
\* One sample of the random noise, drawn from the seed state s.
Noise(s, n) == IF n % (s + 1) = 0 THEN 1 ELSE 0

\* utils_datagen.create_time_series(waveform, datalen): a periodic pattern
\* whose period depends on the waveform, plus noise.
create_time_series(waveform, datalen, s) ==
    [i \in 1..datalen |->
        2 * ((i - 1) % (waveform + 1)) + Noise(s, (waveform - 1) * datalen + i)]

\* data = np.concatenate([create_time_series(w, DATA_SEQ_LEN) for w in Waveforms])
Concatenate(n, s) ==
    [i \in 1..(NbWaveforms * n) |->
        create_time_series(((i - 1) \div n) + 1, n, s)[((i - 1) % n) + 1]]

\* ------------------------------------------------------------ numpy helpers
\* np.roll with the shift taken in the other direction.
np_roll_right(a, shift) ==
    [i \in 1..Len(a) |-> a[((i - 1 + shift) % Len(a)) + 1]]

\* np.roll(a, shift) on a flat array: result[k] = a[(k - shift) mod n].
np_roll(a, shift) ==
    [i \in 1..Len(a) |-> a[((i - 1 - shift) % Len(a)) + 1]]

\* A reshape that accepts any size and drops the remainder.
ReshapableAlways(a, L) == TRUE

\* np.reshape(a, [-1, L]) raises ValueError unless L divides the size.
Reshapable(a, L) == Len(a) % L = 0

\* The reshape in Fortran (column-major) order.
np_reshape_F(a, L) ==
    [w \in 1..(Len(a) \div L) |-> [i \in 1..L |-> a[(i - 1) * (Len(a) \div L) + w]]]

\* np.reshape(a, [-1, L]) in C (row-major) order.
np_reshape(a, L) ==
    [w \in 1..(Len(a) \div L) |-> [i \in 1..L |-> a[(w - 1) * L + i]]]

\* A stack that pairs each input window with the label window after it.
np_stack_shifted(x, y) == [w \in 1..Len(x) |-> <<x[w], y[(w % Len(y)) + 1]>>]

\* np.stack([x, y], axis=1): joined[w] = <<x[w], y[w]>>.
np_stack(x, y) == [w \in 1..Len(x) |-> <<x[w], y[w]>>]

\* np.random.choice(n, size, replace=False) raises ValueError when size > n.
Choosable(n, size) == size <= n

\* The arrays a choice with replacement can return.
np_random_choice_replace(n, size) == [1..size -> 1..n]

\* The arrays np.random.choice(n, size, replace=False) can return.
np_random_choice(n, size) ==
    {c \in [1..size -> 1..n] : \A a, b \in 1..size : a # b => c[a] # c[b]}

\* joined_data[idx]: fancy indexing with an index array.
Take(joined, idx) == [k \in 1..Len(idx) |-> joined[idx[k]]]

\* joined_evaldata[:, 0, :] and joined_evaldata[:, 1, :]
Column(joined, c) == [k \in 1..Len(joined) |-> joined[k][c]]

\* EVAL_SEQUENCES = DATA_SEQ_LEN*4//SEQLEN//4
EVAL_SEQUENCES == ((DATA_SEQ_LEN * 4) \div SEQLEN) \div 4

\* Number of windows, M/L, once the windows exist.
NbWindows == Len(traindata)

\* ---------------------------------------------------------------- Init
Init ==
    /\ DATA_SEQ_LEN \in 1..MaxDataSeqLen
    /\ SEQLEN \in 1..MaxSeqLen
    /\ BATCHSIZE \in 1..MaxBatchSize
    /\ NB_EPOCHS \in 1..MaxEpochs
    /\ \E s \in 0..MaxSeed : data = Concatenate(DATA_SEQ_LEN, s)
    /\ pc = "prepare"
    /\ rolled = <<>>
    /\ traindata = <<>>
    /\ labeldata = <<>>
    /\ evalidx = <<>>
    /\ evaldata = <<>>
    /\ evallabels = <<>>
    /\ trainpc = "idle"
    /\ shuffleBuf = EmptyBag
    /\ trainRead = 0
    /\ emitted = EmptyBag
    /\ block = EmptyBag
    /\ dupInBlock = FALSE
    /\ lastBatch = <<>>
    /\ step = 0
    /\ evalpc = "idle"
    /\ evalRead = 0
    /\ evalBatches = 0
    /\ evalBatch = <<>>
    /\ prevEvalBatch = <<>>
    /\ evalPasses = 0

\* ------------------------------------------------- the preparation cell
\* Lines 292-303 run top to bottom; an exception ends the cell and leaves
\* the names bound so far.
Prepare ==
    /\ pc = "prepare"
    /\ rolled' = np_roll(data, -1)
    /\ IF ~Reshapable(data, SEQLEN)
       THEN /\ pc' = "error"
            /\ UNCHANGED <<traindata, labeldata, evalidx, evaldata, evallabels>>
       ELSE /\ traindata' = np_reshape(data, SEQLEN)
            /\ labeldata' = np_reshape(rolled', SEQLEN)
            /\ IF ~Choosable(Len(traindata'), EVAL_SEQUENCES)
               THEN /\ pc' = "error"
                    /\ UNCHANGED <<evalidx, evaldata, evallabels>>
               ELSE /\ evalidx' \in np_random_choice(Len(traindata'), EVAL_SEQUENCES)
                    /\ LET joined_data == np_stack(traindata', labeldata')
                           joined_evaldata == Take(joined_data, evalidx')
                       IN /\ evaldata' = Column(joined_evaldata, 1)
                          /\ evallabels' = Column(joined_evaldata, 2)
                    /\ pc' = "ready"
    /\ UNCHANGED <<config, trainVars, evalVars>>

\* ------------------------------------------------------ tf.data stages
\* tf.data.Dataset.from_tensor_slices((x, y)): element k is the pair (x[k], y[k]).
from_tensor_slices(x, y) == [k \in 1..Len(x) |-> <<x[k], y[k]>>]

\* dataset.repeat() in train_dataset: -1 repeats indefinitely.
TrainRepeatCount == -1

\* evaldataset.repeat(1) in eval_dataset.
EvalRepeatCount == 1

\* A repeat stage that plays its source once whatever the count.
RepeatHasOnce(n, count, p) == n > 0 /\ p <= n

\* Whether a dataset of n elements repeated `count` times has a p-th element.
RepeatHas(n, count, p) == n > 0 /\ (count = -1 \/ p <= count * n)

\* The p-th element of the repeated dataset: the source is replayed in order.
RepeatElem(n, p) == ((p - 1) % n) + 1

\* ----------------------------------------------------- eval_dataset
\* The elements eval_dataset slices: (evaldata[k], evallabels[k]).
EvalPool == from_tensor_slices(evaldata, evallabels)

\* An evaluation batched with the training batch size.
EvalBatchSizeTrain == BATCHSIZE

\* evaldataset.batch(EVAL_SEQUENCES)
EvalBatchSize == EVAL_SEQUENCES

\* How many elements the next evaluation batch holds: batch() takes up to
\* batch_size elements and keeps a short remainder; 0 is end-of-data.
EvalAvailable ==
    LET n == Len(EvalPool)
        left == IF n = 0 THEN 0 ELSE EvalRepeatCount * n - evalRead
    IN IF left < EvalBatchSize THEN left ELSE EvalBatchSize

\* estimator.evaluate / the evaluator of train_and_evaluate calls the input
\* function: a new one-shot iterator over the same evaldata. batch() rejects
\* a batch size that is not positive.
EvalOpen ==
    /\ pc = "ready"
    /\ evalpc \in {"idle", "end"}
    /\ evalPasses < MaxEvalPasses
    /\ evalPasses' = evalPasses + 1
    /\ evalpc' = IF EvalBatchSize <= 0 THEN "error" ELSE "open"
    /\ evalRead' = 0
    /\ evalBatches' = 0
    /\ prevEvalBatch' = evalBatch
    /\ evalBatch' = <<>>
    /\ UNCHANGED <<config, pc, prepVars, trainVars>>

\* One get_next of the evaluation iterator (steps=None: until exhausted).
EvalGetNext ==
    /\ evalpc = "open"
    /\ LET n == EvalAvailable
       IN IF n = 0
          THEN /\ evalpc' = "end"
               /\ UNCHANGED <<evalRead, evalBatches, evalBatch>>
          ELSE /\ evalBatch' = [k \in 1..n |->
                                   EvalPool[RepeatElem(Len(EvalPool), evalRead + k)]]
               /\ evalRead' = evalRead + n
               /\ evalBatches' = evalBatches + 1
               /\ evalpc' = "open"
    /\ UNCHANGED <<config, pc, prepVars, trainVars, prevEvalBatch, evalPasses>>

\* ----------------------------------------------------- train_dataset
\* The elements train_dataset slices: every window, (traindata[w], labeldata[w]).
TrainPool == from_tensor_slices(traindata, labeldata)

\* dataset.shuffle(DATA_SEQ_LEN*4//SEQLEN): the buffer size.
ShuffleBufferSize == (DATA_SEQ_LEN * 4) \div SEQLEN

\* dataset.batch(BATCHSIZE)
TrainBatchSize == BATCHSIZE

\* A step count for a single epoch.
nbsteps_one_epoch == ((DATA_SEQ_LEN * 4) \div SEQLEN) \div BATCHSIZE

\* nbsteps = DATA_SEQ_LEN*4//SEQLEN//BATCHSIZE * NB_EPOCHS
nbsteps == (((DATA_SEQ_LEN * 4) \div SEQLEN) \div BATCHSIZE) * NB_EPOCHS

\* The shuffle stage tops its buffer up from repeat() before it draws.
RECURSIVE Fill(_)
Fill(s) ==
    IF /\ BagCardinality(s.buf) < ShuffleBufferSize
       /\ RepeatHas(Len(TrainPool), TrainRepeatCount, s.read + 1)
    THEN Fill([buf |-> s.buf (+) SetToBag({RepeatElem(Len(TrainPool), s.read + 1)}),
               read |-> s.read + 1])
    ELSE s

\* A shuffle stage that leaves the emitted element in its buffer.
RemoveNothing(buf, j) == buf

\* What is left of the buffer once the shuffle stage has emitted j.
Remove(buf, j) == buf (-) SetToBag({j})

\* batch(k more elements) on top of the shuffle stage: every outcome
\* [buf, read, batch]; a batch ends early only when the input is exhausted.
RECURSIVE Collect(_, _, _)
Collect(s, acc, k) ==
    IF k = 0
    THEN {[buf |-> s.buf, read |-> s.read, batch |-> acc]}
    ELSE LET f == Fill(s)
         IN IF BagCardinality(f.buf) = 0
            THEN {[buf |-> f.buf, read |-> f.read, batch |-> acc]}
            ELSE UNION {Collect([buf |-> Remove(f.buf, j), read |-> f.read],
                                Append(acc, j), k - 1) : j \in BagToSet(f.buf)}

\* The current block of W consecutive emissions after j is emitted.
NextBlock(b, j, W) ==
    IF BagCardinality(b) >= W THEN SetToBag({j}) ELSE b (+) SetToBag({j})

\* Folding a batch into the block bookkeeping: [block, dup].
RECURSIVE Account(_, _, _)
Account(acc, batch, W) ==
    IF batch = <<>>
    THEN acc
    ELSE LET j == Head(batch)
             fresh == BagCardinality(acc.block) >= W
         IN Account([block |-> NextBlock(acc.block, j, W),
                     dup |-> acc.dup \/ (~fresh /\ BagIn(j, acc.block))],
                    Tail(batch), W)

RECURSIVE SeqToBag(_)
SeqToBag(q) == IF q = <<>> THEN EmptyBag ELSE SetToBag({Head(q)}) (+) SeqToBag(Tail(q))

\* tf.estimator.train_and_evaluate: TrainSpec rejects max_steps <= 0;
\* otherwise training calls train_dataset() for a one-shot iterator.
TrainStart ==
    /\ pc = "ready"
    /\ trainpc = "idle"
    /\ trainpc' = IF nbsteps <= 0 THEN "error" ELSE "running"
    /\ UNCHANGED <<shuffleBuf, trainRead, emitted, block, dupInBlock, lastBatch, step>>
    /\ UNCHANGED <<config, pc, prepVars, evalVars>>

\* One training step: one get_next of the batched iterator; training stops
\* when the global step reaches max_steps or the input signals end-of-data.
TrainStep ==
    /\ trainpc = "running"
    /\ step < nbsteps
    /\ \E r \in Collect([buf |-> shuffleBuf, read |-> trainRead], <<>>, TrainBatchSize) :
          /\ shuffleBuf' = r.buf
          /\ trainRead' = r.read
          /\ IF r.batch = <<>>
             THEN /\ trainpc' = "exhausted"
                  /\ UNCHANGED <<emitted, block, dupInBlock, lastBatch, step>>
             ELSE /\ lastBatch' = r.batch
                  /\ emitted' = emitted (+) SeqToBag(r.batch)
                  /\ LET a == Account([block |-> block, dup |-> dupInBlock],
                                      r.batch, Len(TrainPool))
                     IN /\ block' = a.block
                        /\ dupInBlock' = a.dup
                  /\ step' = step + 1
                  /\ trainpc' = IF step + 1 >= nbsteps THEN "done" ELSE "running"
    /\ UNCHANGED <<config, pc, prepVars, evalVars>>

\* ------------------------------------------------------- specifications
\* Data preparation and evaluation passes.
Next == Prepare \/ EvalOpen \/ EvalGetNext

Spec == Init /\ [][Next]_vars

\* Data preparation and the training loop, for corpora of at most
\* MaxTrainWindows windows. The training pipeline moves whole windows and
\* never looks inside them, so the generator's seed state is fixed here.
InitTrain ==
    /\ Init
    /\ (DATA_SEQ_LEN * 4) \div SEQLEN <= MaxTrainWindows
    /\ data = Concatenate(DATA_SEQ_LEN, 0)

NextTrain == Prepare \/ TrainStart \/ TrainStep

SpecTrain == InitTrain /\ [][NextTrain]_vars

\* ------------------------------------------------------------- claims
\* The windows of a [W, L] array laid end to end.
RECURSIVE Flatten(_)
Flatten(ws) == IF ws = <<>> THEN <<>> ELSE Head(ws) \o Flatten(Tail(ws))

\* C1: once the windows are built, each label window is its input window
\* advanced by one sample: labeldata[w][i] = traindata[w][i+1] inside a window,
\* the last label of a window is the first input of the next window, and the
\* last label of the last window wraps around to data[0].
C1_LabelsShiftedByOne ==
    pc = "ready" =>
        LET W == Len(traindata)
            L == SEQLEN
        IN /\ Len(labeldata) = W
           /\ \A w \in 1..W : \A i \in 1..(L - 1) : labeldata[w][i] = traindata[w][i + 1]
           /\ \A w \in 1..(W - 1) : labeldata[w][L] = traindata[w + 1][1]
           /\ labeldata[W][L] = data[1]

C1_Witness ==
    /\ pc = "ready"
    /\ Len(traindata) >= 2
    /\ SEQLEN >= 2
    /\ labeldata[Len(traindata)][SEQLEN] = data[1]
    /\ labeldata[1][SEQLEN] = traindata[2][1]

\* C2: the evaluation subset holds exactly EVAL_SEQUENCES windows, picked by
\* EVAL_SEQUENCES pairwise distinct window indices in [0, M/L).
C2_EvalIndicesDistinct ==
    pc = "ready" =>
        /\ Len(evalidx) = EVAL_SEQUENCES
        /\ Len(evaldata) = EVAL_SEQUENCES
        /\ Len(evallabels) = EVAL_SEQUENCES
        /\ \A k \in 1..Len(evalidx) : evalidx[k] \in 1..Len(traindata)
        /\ \A a, b \in 1..Len(evalidx) : a # b => evalidx[a] # evalidx[b]

C2_Witness ==
    /\ pc = "ready"
    /\ EVAL_SEQUENCES >= 2
    /\ Len(evalidx) = EVAL_SEQUENCES
    /\ evalidx[1] > evalidx[2]

\* C3: every evaluation example is one window of the window set, input and
\* label taken at the same index, and that window is still an element of the
\* pool train_dataset slices, which holds every window.
C3_EvalDrawnFromWindows ==
    pc = "ready" =>
        /\ Len(TrainPool) = Len(traindata)
        /\ \A k \in 1..Len(evaldata) :
              \E j \in 1..Len(traindata) :
                 /\ evaldata[k] = traindata[j]
                 /\ evallabels[k] = labeldata[j]
                 /\ TrainPool[j] = <<evaldata[k], evallabels[k]>>

C3_Witness ==
    /\ pc = "ready"
    /\ Len(evaldata) >= 2
    /\ evaldata[1] # evaldata[2]
    /\ evaldata[1] = traindata[evalidx[1]]
    /\ TrainPool[evalidx[1]] = <<evaldata[1], evallabels[1]>>

\* C4: when SEQLEN does not divide the length of data, or EVAL_SEQUENCES
\* exceeds the number of windows, the preparation ends in an error; an
\* errored preparation has built no windows and no evaluation subset, and no
\* input pipeline is ever started from it.
C4_ConfigViolationFatal ==
    pc # "prepare" =>
        /\ (\/ Len(data) % SEQLEN # 0
            \/ EVAL_SEQUENCES * SEQLEN > Len(data)) => pc = "error"
        /\ pc = "error" =>
              /\ traindata = <<>>
              /\ labeldata = <<>>
              /\ evalidx = <<>>
              /\ evaldata = <<>>
              /\ evallabels = <<>>
              /\ evalpc = "idle"
              /\ trainpc = "idle"
              /\ ~ENABLED Next

C4_Witness ==
    /\ pc = "error"
    /\ Len(data) % SEQLEN # 0
    /\ Len(rolled) = Len(data)
    /\ traindata = <<>>

C7_ReshapeRoundTrip ==
    pc = "ready" =>
        /\ Len(traindata) * SEQLEN = Len(data)
        /\ \A w \in 1..Len(traindata) :
              /\ Len(traindata[w]) = SEQLEN
              /\ \A i \in 1..SEQLEN : traindata[w][i] = data[(w - 1) * SEQLEN + i]
        /\ Flatten(traindata) = data

C7_Witness ==
    /\ pc = "ready"
    /\ Len(traindata) >= 2
    /\ SEQLEN >= 2
    /\ Flatten(traindata) = data
    /\ traindata[1] # traindata[2]

\* How often window j occurs among the first r elements of the repeated pool
\* of W windows.
CopiesInPrefix(j, r, W) == (r \div W) + (IF j <= r % W THEN 1 ELSE 0)

\* C5: the training stream never signals end-of-data, every batch delivered
\* holds exactly BATCHSIZE pool windows, and whatever has been consumed so
\* far the next request is answered with a full batch.
C5_TrainStreamUnbounded ==
    /\ trainpc # "exhausted"
    /\ lastBatch # <<>> =>
          /\ Len(lastBatch) = BATCHSIZE
          /\ \A k \in 1..Len(lastBatch) : lastBatch[k] \in 1..Len(traindata)
    /\ trainpc \in {"running", "done"} =>
          /\ BagCardinality(emitted) = step * BATCHSIZE
          /\ \A r \in Collect([buf |-> shuffleBuf, read |-> trainRead], <<>>, TrainBatchSize) :
                Len(r.batch) = BATCHSIZE

C5_Witness ==
    /\ trainpc = "done"
    /\ Len(traindata) % BATCHSIZE # 0
    /\ step * BATCHSIZE > Len(traindata)
    /\ Len(lastBatch) = BATCHSIZE

\* C9 as claimed: within a block of W consecutive emissions no window is
\* emitted twice, so every full block is a permutation of the pool.
C9_BlocksArePermutations ==
    /\ ~dupInBlock
    /\ BagCardinality(block) = Len(traindata) => BagToSet(block) = 1..Len(traindata)

\* C9, amended: the shuffle stage only reorders the repeated pool through
\* its buffer: what has been emitted together with what the buffer holds is
\* exactly the prefix of the repeated pool read so far, the buffer never
\* holds more than W windows, and so after n emissions a window has been
\* emitted at most as often as it occurs among the first n + W - 1 elements
\* of the repeated pool.
C9_ShuffleConservation ==
    trainpc \in {"running", "done"} =>
        LET W == Len(traindata)
            n == BagCardinality(emitted)
        IN /\ BagToSet(emitted) \subseteq 1..W
           /\ BagCardinality(shuffleBuf) <= W
           /\ trainRead = n + BagCardinality(shuffleBuf)
           /\ \A j \in 1..W :
                 /\ CopiesIn(j, emitted) + CopiesIn(j, shuffleBuf)
                       = CopiesInPrefix(j, trainRead, W)
                 /\ n >= 1 => CopiesIn(j, emitted) <= CopiesInPrefix(j, n + W - 1, W)

C9_Witness ==
    /\ trainpc = "done"
    /\ dupInBlock
    /\ BagCardinality(emitted) = Len(traindata)
    /\ \E j \in 1..Len(traindata) : CopiesIn(j, emitted) = 2

\* C10: training pulls exactly nbsteps batches and then stops: the global
\* step never passes (DATA_SEQ_LEN*4 // SEQLEN // BATCHSIZE) * NB_EPOCHS, a
\* finished training has consumed that many batches of BATCHSIZE windows,
\* which is NB_EPOCHS times the number of windows when BATCHSIZE divides it,
\* and pulls nothing more.
C10_TrainingStopsAtNbSteps ==
    LET W == Len(traindata)
        n == (((DATA_SEQ_LEN * 4) \div SEQLEN) \div BATCHSIZE) * NB_EPOCHS
    IN /\ step <= n
       /\ trainpc = "running" => step < n
       /\ trainpc = "done" =>
             /\ step = n
             /\ BagCardinality(emitted) = n * BATCHSIZE
             /\ W % BATCHSIZE = 0 => BagCardinality(emitted) = NB_EPOCHS * W
             /\ ~ENABLED NextTrain

C10_Witness ==
    /\ trainpc = "done"
    /\ NB_EPOCHS >= 2
    /\ BATCHSIZE >= 2
    /\ Len(traindata) % BATCHSIZE = 0
    /\ BagCardinality(emitted) = NB_EPOCHS * Len(traindata)

====
